---- MODULE Spec2Model ----
(***************************************************************************)
(* Druta CLI (drt): `drt <platform> <action> <name>` scaffolds or removes  *)
(* the directory <cwd>/<name> of a component.  The model follows           *)
(* src/index.js: the argument parser, the interactive prompt, the two      *)
(* dispatchers and the six platform handlers, each file system call being  *)
(* one atomic step of the process that makes it.                           *)
(*                                                                         *)
(* A string is a sequence of one-character strings.  A path is a sequence  *)
(* of segments; the file system maps every existing path to its entry.     *)
(* A file system call that throws is taken to leave the file system as it  *)
(* was.                                                                    *)
(***************************************************************************)
EXTENDS Naturals, Integers, Sequences, FiniteSets, TLC

(***************************************************************************)
(* Bounds of the model.                                                    *)
(***************************************************************************)
\* longest component name, in characters
MaxNameLen == 3
\* most lines the user types at the name prompt
MaxAttempts == 2
\* most command-line tokens of a run
MaxArgs == 4

(***************************************************************************)
(* Strings.                                                                *)
(***************************************************************************)
\* the characters of a name: a lower-case letter, the path separator, a blank
Chars == {"a", "/", " "}

Names == UNION {[1..n -> Chars] : n \in 0..MaxNameLen}

\* String.prototype.toUpperCase on one character
ToUpperCase(c) == IF c = "a" THEN "A" ELSE c

\* the identity: what a template that forgot to capitalise would interpolate
CapitalizeNone(name) == name

\* componentName.charAt(0).toUpperCase() + componentName.slice(1)
Capitalize(name) ==
    IF name = <<>> THEN <<>> ELSE <<ToUpperCase(Head(name))>> \o Tail(name)

IsBlank(c) == c = " "

RECURSIVE TrimStart(_)
TrimStart(s) ==
    IF s # <<>> /\ IsBlank(Head(s)) THEN TrimStart(Tail(s)) ELSE s

RECURSIVE TrimEnd(_)
TrimEnd(s) ==
    IF s # <<>> /\ IsBlank(s[Len(s)]) THEN TrimEnd(SubSeq(s, 1, Len(s) - 1)) ELSE s

\* String.prototype.trim
Trim(s) == TrimEnd(TrimStart(s))

\* the name prompt's validate: input.trim() !== ""
Validate(input) == Trim(input) # <<>>

(***************************************************************************)
(* Paths.                                                                  *)
(***************************************************************************)
\* the segments of a string split at "/", empty segments dropped
\* (path.join normalises "a//b", "/a" and "a/" to the segments a, b)
RECURSIVE Segments(_, _)
Segments(s, cur) ==
    IF s = <<>> THEN (IF cur = <<>> THEN <<>> ELSE <<cur>>)
    ELSE IF Head(s) = "/"
         THEN (IF cur = <<>> THEN <<>> ELSE <<cur>>) \o Segments(Tail(s), <<>>)
         ELSE Segments(Tail(s), Append(cur, Head(s)))

\* process.cwd(): the working directory of every run
Cwd == << <<"w">> >>

\* path.join(process.cwd(), componentName): the segments, and whether the
\* joined path keeps a trailing separator (it then names a directory only)
Join(base, name) ==
    [segs |-> base \o Segments(name, <<>>),
     slash |-> name # <<>> /\ name[Len(name)] = "/"]

\* no path yet
NoTarget == [segs |-> <<>>, slash |-> FALSE]

\* path.join(basePath, "page.tsx")
FilePath(dir, file) == dir.segs \o << <<file>> >>

IsPrefix(p, q) == Len(p) <= Len(q) /\ SubSeq(q, 1, Len(p)) = p

Prefixes(p) == {SubSeq(p, 1, n) : n \in 0..Len(p)}

(***************************************************************************)
(* File contents: the template written and the values interpolated in it.  *)
(***************************************************************************)
NoContent == [tpl |-> "", ident |-> <<>>, text |-> <<>>]

Dir == [type |-> "dir", content |-> NoContent]

File(content) == [type |-> "file", content |-> content]

(***************************************************************************)
(* The file system calls.  fs maps each existing path to its entry; a path *)
(* exists only below existing directories.                                 *)
(***************************************************************************)
IsDir(f, p) == p \in DOMAIN f /\ f[p].type = "dir"

\* fs.existsSync
ExistsSync(f, t) == t.segs \in DOMAIN f /\ (t.slash => f[t.segs].type = "dir")

\* fs.mkdirSync(p) without { recursive: true }: throws when p exists
MkdirSyncPlainThrows(f, t) ==
    \/ t.segs \in DOMAIN f
    \/ \E q \in Prefixes(t.segs) : q # t.segs /\ ~IsDir(f, q)

\* fs.mkdirSync(p, { recursive: true }) throws when an entry on the way is
\* no directory; an existing directory is no error
MkdirSyncThrows(f, t) ==
    \E q \in Prefixes(t.segs) : q \in DOMAIN f /\ f[q].type # "dir"

\* fs.mkdirSync(p, { recursive: true }): p and its missing ancestors
MkdirSync(f, t) ==
    [q \in DOMAIN f \cup Prefixes(t.segs) |-> IF q \in DOMAIN f THEN f[q] ELSE Dir]

\* fs.writeFileSync throws when the directory is missing or the path is one
WriteFileSyncThrows(f, p) ==
    \/ ~IsDir(f, SubSeq(p, 1, Len(p) - 1))
    \/ IsDir(f, p)

\* fs.writeFileSync(p, content): creates or overwrites the file
WriteFileSync(f, p, content) ==
    [q \in DOMAIN f \cup {p} |-> IF q = p THEN File(content) ELSE f[q]]

\* fs.rmSync(p, { recursive: true, force: true }) throws on a trailing
\* separator after a file; a missing path is no error (force)
RmSyncThrows(f, t) ==
    t.segs \in DOMAIN f /\ t.slash /\ f[t.segs].type # "dir"

\* a delete that leaves the target in place
RmSyncNone(f, t) == f

\* a delete that empties the directory and keeps it
RmSyncContents(f, t) ==
    [q \in {r \in DOMAIN f : ~IsPrefix(t.segs, r) \/ r = t.segs} |-> f[q]]

\* fs.rmSync(p, { recursive: true, force: true }): p and all below it
RmSync(f, t) ==
    [q \in {r \in DOMAIN f : ~IsPrefix(t.segs, r)} |-> f[q]]

(***************************************************************************)
(* The templates of the six files, by what they interpolate: ident is the  *)
(* name as it appears in the identifier of the generated component, text   *)
(* the name as it appears in the generated text.                           *)
(***************************************************************************)
\* the page content of createNextComponents
NextPage(name) == [tpl |-> "next/page.tsx", ident |-> Capitalize(name), text |-> name]

\* the layout content of createNextComponents
NextLayout(name) == [tpl |-> "next/layout.tsx", ident |-> Capitalize(name), text |-> name]

\* the index content of createExpoComponents
ExpoIndex(name) == [tpl |-> "expo/index.tsx", ident |-> name, text |-> name]

\* the styles content of createExpoComponents
ExpoStyles == [tpl |-> "expo/styles.js", ident |-> <<>>, text |-> <<>>]

\* the index content of createReactNativeComponents
ReactNativeIndex(name) == [tpl |-> "react-native/index.jsx", ident |-> name, text |-> name]

\* the styles content of createReactNativeComponents
ReactNativeStyles == [tpl |-> "react-native/styles.js", ident |-> <<>>, text |-> <<>>]

(***************************************************************************)
(* The command line.                                                       *)
(***************************************************************************)
\* a platform list that lets an unknown token through
PlatformsAny == {"expo", "next", "react-native", "android"}

\* ["expo", "next", "react-native"]
Platforms == {"expo", "next", "react-native"}

\* ["add", "remove"]
Actions == {"add", "remove"}

\* the exit status of a run that ends without process.exit
ExitSuccess == 0

\* process.exit(1)
ExitFailure == 1

\* first and second tokens a user may give, known or not
PlatformTokens == Platforms \cup {"android"}

ActionTokens == Actions \cup {"delete"}

\* the command lines of k tokens with a name of N; tokens after the third
\* are "x"
ArgvOfLen(k, N) ==
    IF k = 0 THEN {<<>>}
    ELSE IF k = 1 THEN {<<t>> : t \in PlatformTokens}
    ELSE IF k = 2 THEN {<<t, u>> : t \in PlatformTokens, u \in ActionTokens}
    ELSE {<<t, u, n>> \o [i \in 1..(k - 3) |-> "x"] :
              t \in PlatformTokens, u \in ActionTokens, n \in N}

Argvs(N, most) == UNION {ArgvOfLen(k, N) : k \in 1..most}

\* the lines a user may leave empty at the name prompt
BlankNames == {n \in Names : \A i \in 1..Len(n) : n[i] = " "}

\* what the user of an interactive run answers: a platform and an action
\* picked from the two lists, then lines from B the name prompt turns down,
\* then at most one further line, from N
Stdins(N, B) ==
    LET Turned == UNION {[1..k -> B] : k \in 0..(MaxAttempts - 1)}
        Lines == Turned \cup {b \o <<n>> : b \in Turned, n \in N}
    IN  {[platform |-> t, action |-> u, names |-> l] :
             t \in Platforms, u \in Actions, l \in Lines}

NoStdin == [platform |-> "", action |-> "", names |-> <<>>]

\* the runs with names of N: a command line of at most `most` tokens, or
\* none and the user's answers
Runs(N, B, most) ==
    {[argv |-> a, stdin |-> NoStdin] : a \in Argvs(N, most)}
        \cup {[argv |-> <<>>, stdin |-> s] : s \in Stdins(N, B)}

(***************************************************************************)
(* The state.                                                              *)
(***************************************************************************)
VARIABLES
    fs,       \* the file system
    proc,     \* the processes running the tool, by process id
    fs0,      \* history: the file system before any run
    order,    \* history: the process ids in the order of their first step
    overlap,  \* history: whether two runs were ever under way together
    writer    \* history: the process that last wrote each file

vars == <<fs, proc, fs0, order, overlap, writer>>

Procs == {1, 2}

Other(p) == 3 - p

Msg(kind, text, name) == [kind |-> kind, text |-> text, name |-> name]

\* a process before its first step
Process(run) ==
    [argv |-> run.argv, stdin |-> run.stdin, pc |-> "parseArguments",
     platform |-> "", action |-> "", componentName |-> <<>>,
     handler |-> "", target |-> NoTarget,
     calls |-> <<>>, threw |-> "", fault |-> FALSE, out |-> <<>>, exitStatus |-> -1]

\* no process
Off == [Process([argv |-> <<>>, stdin |-> NoStdin]) EXCEPT !.pc = "off"]

(***************************************************************************)
(* Initial file systems: the working directory /w, and in it               *)
(*   nothing;                                                              *)
(*   a/ holding the two files of an expo component;                        *)
(*   a/ holding a directory a/a/ with a file not of this tool;             *)
(*   a regular file a.                                                     *)
(***************************************************************************)
A == <<"a">>

Notes == [tpl |-> "notes", ident |-> <<>>, text |-> <<>>]

FsEmpty == (<<>> :> Dir) @@ (Cwd :> Dir)

FsComponent ==
    FsEmpty @@ (Cwd \o <<A>> :> Dir)
            @@ (Cwd \o <<A, <<"index.tsx">> >> :> File(ExpoIndex(A)))
            @@ (Cwd \o <<A, <<"styles.js">> >> :> File(ExpoStyles))

FsNested ==
    FsEmpty @@ (Cwd \o <<A>> :> Dir)
            @@ (Cwd \o <<A, A>> :> Dir)
            @@ (Cwd \o <<A, A, <<"notes.txt">> >> :> File(Notes))

FsFile == FsEmpty @@ (Cwd \o <<A>> :> File(Notes))

InitFs == {FsEmpty, FsComponent, FsNested, FsFile}

InitHistory ==
    /\ fs0 = fs
    /\ order = <<>>
    /\ overlap = FALSE
    /\ writer = <<>>

\* one run of the tool
Init ==
    /\ fs \in InitFs
    /\ \E run \in Runs(Names, BlankNames, MaxArgs) : proc = [p \in Procs |-> IF p = 1 THEN Process(run) ELSE Off]
    /\ InitHistory

\* the names of a pair of runs: no blanks
PairNames == {n \in Names : \A i \in 1..Len(n) : n[i] # " "}

\* two runs of the tool in the same working directory with the same name,
\* the first a valid command: one after the other, or interleaved at their
\* file system calls
InitPair ==
    /\ fs \in {FsEmpty, FsComponent}
    /\ \E n \in PairNames :
         \E t \in Platforms, u \in Actions, run \in Runs({n}, {}, 3) :
             proc = [p \in Procs |->
                        IF p = 1 THEN Process([argv |-> <<t, u, n>>, stdin |-> NoStdin])
                        ELSE Process(run)]
    /\ InitHistory

(***************************************************************************)
(* Steps shared by the actions.                                            *)
(***************************************************************************)
Started(p) == \E i \in 1..Len(order) : order[i] = p

\* a run under way: it took a step and did not exit
Running(p) == Started(p) /\ proc[p].pc # "exited"

\* the history of a step of process p
Track(p) ==
    /\ order' = IF Started(p) THEN order ELSE Append(order, p)
    /\ overlap' = (overlap \/ Running(Other(p)))
    /\ fs0' = fs0

Say(r, m) == [r EXCEPT !.out = Append(@, m)]

Call(r, fn) == [r EXCEPT !.calls = Append(@, fn)]

\* the process ends with the given status
Exit(r, status) == [r EXCEPT !.pc = "exited", !.exitStatus = status]

\* displayHelp
DisplayHelp(r) == Say(r, Msg("help", "USAGE", <<>>))

\* a catch block that reports the error and lets the run go on to its end
CatchContinue(r, what, err) ==
    Exit(Say([r EXCEPT !.threw = err], Msg("failure", what, r.componentName)), ExitSuccess)

\* the catch blocks of addComponent and removeComponent: report, exit(1)
Catch(r, what, err) ==
    Exit(Say([r EXCEPT !.threw = err], Msg("failure", what, r.componentName)), ExitFailure)

\* the handler returned: the success message, and the run ends
Succeed(r, what) ==
    Exit(Say(r, Msg("success", what, r.componentName)), ExitSuccess)

\* a local step of process p, the file system untouched
Local(p, r) ==
    /\ proc' = [proc EXCEPT ![p] = r]
    /\ UNCHANGED <<fs, writer>>
    /\ Track(p)

(***************************************************************************)
(* parseArguments                                                          *)
(***************************************************************************)
\* args.length === 0: the banner, then the interactive prompt
Welcome(p) ==
    /\ proc[p].pc = "parseArguments"
    /\ Len(proc[p].argv) = 0
    /\ Local(p, [Say(proc[p], Msg("banner", "DRUTA CLI", <<>>)) EXCEPT !.pc = "interactiveCLI"])

\* args.length < 3
NotEnoughArguments(p) ==
    /\ proc[p].pc = "parseArguments"
    /\ Len(proc[p].argv) \in 1..2
    /\ Local(p, Exit(DisplayHelp(Say(proc[p],
                     Msg("error", "Not enough arguments provided", <<>>))), ExitFailure))

\* the platform token is not of the list
InvalidPlatform(p) ==
    /\ proc[p].pc = "parseArguments"
    /\ Len(proc[p].argv) >= 3
    /\ proc[p].argv[1] \notin Platforms
    /\ Local(p, Exit(DisplayHelp(Say(proc[p],
                     Msg("error", "Invalid platform", <<>>))), ExitFailure))

\* the action token is not of the list
InvalidAction(p) ==
    /\ proc[p].pc = "parseArguments"
    /\ Len(proc[p].argv) >= 3
    /\ proc[p].argv[1] \in Platforms
    /\ proc[p].argv[2] \notin Actions
    /\ Local(p, Exit(DisplayHelp(Say(proc[p],
                     Msg("error", "Invalid action", <<>>))), ExitFailure))

\* addComponent: the add handler of the platform, called in a try; with no
\* handler for the platform the success is reported at once
addComponent(r) ==
    IF r.platform = "next"
    THEN [r EXCEPT !.handler = "createNextComponents", !.pc = "existsSync"]
    ELSE IF r.platform = "expo"
    THEN [r EXCEPT !.handler = "createExpoComponents", !.pc = "existsSync"]
    ELSE IF r.platform = "react-native"
    THEN [r EXCEPT !.handler = "createReactNativeComponents", !.pc = "existsSync"]
    ELSE Succeed(r, "Successfully created")

\* removeComponent: the remove handler of the platform, called in a try
removeComponent(r) ==
    IF r.platform = "next"
    THEN [r EXCEPT !.handler = "removeNextComponents", !.pc = "existsSync"]
    ELSE IF r.platform = "expo"
    THEN [r EXCEPT !.handler = "removeExpoComponents", !.pc = "existsSync"]
    ELSE IF r.platform = "react-native"
    THEN [r EXCEPT !.handler = "removeReactNativeComponents", !.pc = "existsSync"]
    ELSE Succeed(r, "Successfully removed")

\* if (action === "add") addComponent(...) else if (action === "remove")
\* removeComponent(...), as parseArguments and interactiveCLI end
Command(r, platform, action, name) ==
    LET c == [r EXCEPT !.platform = platform, !.action = action, !.componentName = name]
    IN  IF action = "add" THEN addComponent(c)
        ELSE IF action = "remove" THEN removeComponent(c)
        ELSE Exit(c, ExitSuccess)

\* the first three tokens are the command
ExecuteCommand(p) ==
    /\ proc[p].pc = "parseArguments"
    /\ Len(proc[p].argv) >= 3
    /\ proc[p].argv[1] \in Platforms
    /\ proc[p].argv[2] \in Actions
    /\ Local(p, Command(proc[p], proc[p].argv[1], proc[p].argv[2], proc[p].argv[3]))

parseArguments(p) ==
    \/ Welcome(p)
    \/ NotEnoughArguments(p)
    \/ InvalidPlatform(p)
    \/ InvalidAction(p)
    \/ ExecuteCommand(p)

(***************************************************************************)
(* interactiveCLI: the platform and the action are picked from the lists;  *)
(* the name prompt reads a line and asks again when validate turns it      *)
(* down.  With no line left the prompt waits.                              *)
(***************************************************************************)
interactiveCLI(p) ==
    /\ proc[p].pc = "interactiveCLI"
    /\ proc[p].stdin.names # <<>>
    /\ LET r == proc[p]
           line == Head(r.stdin.names)
           rest == [r EXCEPT !.stdin.names = Tail(@)]
       IN  Local(p, IF Validate(line)
                    THEN Command(rest, r.stdin.platform, r.stdin.action, line)
                    ELSE Say(rest, Msg("reprompt", "Name cannot be empty", line)))

\* parseArguments().catch: an error that reaches the top, here the prompt
\* rejecting (the terminal is gone, the user breaks off), is printed and the
\* process exits 1
UncaughtError(p) ==
    /\ proc[p].pc = "interactiveCLI"
    /\ Local(p, Exit(Say(proc[p], Msg("error", "Error: prompt", <<>>)), ExitFailure))

(***************************************************************************)
(* The add handlers.  The three differ in the wording of the error, the    *)
(* names of the two files and their templates.  Each step makes one file   *)
(* system call; a call that would go through may still throw for a reason  *)
(* of the system's own (no permission, disk full), which the step draws as *)
(* `fails` and the process records as its fault.                           *)
(***************************************************************************)
\* the call made throws for a reason of the system's own
Fault(r) == [r EXCEPT !.fault = TRUE]

\* path.join(process.cwd(), componentName), and the check that it exists:
\* "already exists" is thrown before anything is created
CreateExists(p, label) ==
    /\ proc[p].pc = "existsSync"
    /\ LET r == Call(proc[p], "existsSync")
           t == Join(Cwd, r.componentName)
       IN  Local(p, IF ~IsDir(fs, Cwd)
                   THEN Catch(Call(proc[p], "cwd"), "Error creating component: uv_cwd", "io")
                   ELSE IF ExistsSync(fs, t)
                   THEN Catch(r, "Error creating component: " \o label \o " already exists",
                              "exists")
                   ELSE [r EXCEPT !.target = t, !.pc = "mkdirSync"])

\* fs.mkdirSync(basePath, { recursive: true })
CreateMkdir(p) ==
    /\ proc[p].pc = "mkdirSync"
    /\ \E fails \in BOOLEAN :
         LET r == Call(proc[p], "mkdirSync") IN
         IF MkdirSyncThrows(fs, r.target)
         THEN Local(p, Catch(r, "Error creating component: mkdir", "io"))
         ELSE IF fails
         THEN Local(p, Catch(Fault(r), "Error creating component: mkdir", "io"))
         ELSE /\ fs' = MkdirSync(fs, r.target)
              /\ proc' = [proc EXCEPT ![p] = [r EXCEPT !.pc = "writeFirst"]]
              /\ UNCHANGED writer
              /\ Track(p)

\* a write that, when it throws, deletes the directory before the error is
\* reported
CreateWriteCleanup(p, at, file, content) ==
    /\ proc[p].pc = at
    /\ \E fails \in BOOLEAN :
         LET r == Call(proc[p], "writeFileSync")
             path == FilePath(r.target, file)
         IN  IF fails \/ WriteFileSyncThrows(fs, path)
             THEN /\ fs' = RmSync(fs, r.target)
                  /\ writer' = [q \in DOMAIN writer \cap DOMAIN fs' |-> writer[q]]
                  /\ proc' = [proc EXCEPT ![p] =
                                 Catch(Fault(r), "Error creating component: write", "io")]
                  /\ Track(p)
             ELSE /\ fs' = WriteFileSync(fs, path, content)
                  /\ writer' = [q \in DOMAIN writer \cup {path} |->
                                   IF q = path THEN p ELSE writer[q]]
                  /\ proc' = [proc EXCEPT ![p] =
                                 IF at = "writeFirst" THEN [r EXCEPT !.pc = "writeSecond"]
                                 ELSE Succeed(r, "Successfully created")]
                  /\ Track(p)

\* fs.writeFileSync of one of the two files; after the second the handler
\* returns and the dispatcher reports the success
CreateWrite(p, at, file, content) ==
    /\ proc[p].pc = at
    /\ \E fails \in BOOLEAN :
         LET r == Call(proc[p], "writeFileSync")
             path == FilePath(r.target, file)
         IN  IF WriteFileSyncThrows(fs, path)
             THEN Local(p, Catch(r, "Error creating component: write", "io"))
             ELSE IF fails
             THEN Local(p, Catch(Fault(r), "Error creating component: write", "io"))
             ELSE /\ fs' = WriteFileSync(fs, path, content)
                  /\ writer' = [q \in DOMAIN writer \cup {path} |->
                                   IF q = path THEN p ELSE writer[q]]
                  /\ proc' = [proc EXCEPT ![p] =
                                 IF at = "writeFirst" THEN [r EXCEPT !.pc = "writeSecond"]
                                 ELSE Succeed(r, "Successfully created")]
                  /\ Track(p)

\* an add handler that writes before it checks that the directory exists
CreateNoCheck(p, label, file1, content1, file2, content2) ==
    \/ /\ proc[p].pc = "existsSync"
       /\ Local(p, [proc[p] EXCEPT !.target = Join(Cwd, proc[p].componentName),
                                  !.pc = "mkdirSync"])
    \/ CreateMkdir(p)
    \/ CreateWrite(p, "writeFirst", file1, content1)
    \/ CreateWrite(p, "writeSecond", file2, content2)

\* the body shared by the three add handlers
Create(p, label, file1, content1, file2, content2) ==
    \/ CreateExists(p, label)
    \/ CreateMkdir(p)
    \/ CreateWrite(p, "writeFirst", file1, content1)
    \/ CreateWrite(p, "writeSecond", file2, content2)

createNextComponents(p) ==
    /\ proc[p].handler = "createNextComponents"
    /\ Create(p, "Component/page",
              "page.tsx", NextPage(proc[p].componentName),
              "layout.tsx", NextLayout(proc[p].componentName))

createExpoComponents(p) ==
    /\ proc[p].handler = "createExpoComponents"
    /\ Create(p, "Component",
              "index.tsx", ExpoIndex(proc[p].componentName),
              "styles.js", ExpoStyles)

createReactNativeComponents(p) ==
    /\ proc[p].handler = "createReactNativeComponents"
    /\ Create(p, "Component",
              "index.jsx", ReactNativeIndex(proc[p].componentName),
              "styles.js", ReactNativeStyles)

(***************************************************************************)
(* The remove handlers, alike but for the wording of the error.            *)
(***************************************************************************)
\* the check that the target exists: "doesn't exist" is thrown before any
\* delete
RemoveExists(p, label) ==
    /\ proc[p].pc = "existsSync"
    /\ LET r == Call(proc[p], "existsSync")
           t == Join(Cwd, r.componentName)
       IN  Local(p, IF ~IsDir(fs, Cwd)
                   THEN Catch(Call(proc[p], "cwd"), "Error removing component: uv_cwd", "io")
                   ELSE IF ~ExistsSync(fs, t)
                   THEN Catch(r, "Error removing component: " \o label \o " doesn't exist",
                              "missing")
                   ELSE [r EXCEPT !.target = t, !.pc = "rmSync"])

\* fs.rmSync(basePath, { recursive: true, force: true }); the handler
\* returns and the dispatcher reports the success
RemoveRm(p) ==
    /\ proc[p].pc = "rmSync"
    /\ \E fails \in BOOLEAN :
         LET r == Call(proc[p], "rmSync") IN
         IF RmSyncThrows(fs, r.target)
         THEN Local(p, Catch(r, "Error removing component: rm", "io"))
         ELSE IF fails
         THEN Local(p, Catch(Fault(r), "Error removing component: rm", "io"))
         ELSE /\ fs' = RmSync(fs, r.target)
              /\ writer' = [q \in DOMAIN writer \cap DOMAIN fs' |-> writer[q]]
              /\ proc' = [proc EXCEPT ![p] = Succeed(r, "Successfully removed")]
              /\ Track(p)

\* a remove handler that deletes without the check
RemoveUnchecked(p, label) ==
    \/ /\ proc[p].pc = "existsSync"
       /\ Local(p, [proc[p] EXCEPT !.target = Join(Cwd, proc[p].componentName),
                                   !.pc = "rmSync"])
    \/ RemoveRm(p)

\* the body shared by the three remove handlers
Remove(p, label) ==
    \/ RemoveExists(p, label)
    \/ RemoveRm(p)

removeNextComponents(p) ==
    /\ proc[p].handler = "removeNextComponents"
    /\ Remove(p, "Component/page")

removeExpoComponents(p) ==
    /\ proc[p].handler = "removeExpoComponents"
    /\ Remove(p, "Component")

removeReactNativeComponents(p) ==
    /\ proc[p].handler = "removeReactNativeComponents"
    /\ Remove(p, "Component")

(***************************************************************************)
(* The specifications.                                                     *)
(***************************************************************************)
Next ==
    \E p \in Procs :
        \/ parseArguments(p)
        \/ interactiveCLI(p)
        \/ UncaughtError(p)
        \/ createNextComponents(p)
        \/ removeNextComponents(p)
        \/ createExpoComponents(p)
        \/ removeExpoComponents(p)
        \/ createReactNativeComponents(p)
        \/ removeReactNativeComponents(p)

\* one run of the tool, from any command line or any answers
Spec == Init /\ [][Next]_vars

\* two runs of the tool on the same name
SpecPair == InitPair /\ [][Next]_vars

(***************************************************************************)
(* Vocabulary of the properties.                                           *)
(***************************************************************************)
Exited(p) == proc[p].pc = "exited"

Printed(p, kind) == \E i \in 1..Len(proc[p].out) : proc[p].out[i].kind = kind

\* the last message of p is of this kind, has one of these texts and names
\* the component
LastMessage(p, kind, texts) ==
    /\ proc[p].out # <<>>
    /\ LET m == proc[p].out[Len(proc[p].out)]
       IN  m.kind = kind /\ m.text \in texts /\ m.name = proc[p].componentName

\* the path <cwd>/<name> of the run of p
TargetOf(p) == Cwd \o Segments(proc[p].componentName, <<>>)

\* the paths below d in f
Below(f, d) == {q \in DOMAIN f : IsPrefix(d, q) /\ q # d}

\* p runs the given action on a platform of the tool
Runs3(p, action) ==
    /\ proc[p].action = action
    /\ proc[p].platform \in {"next", "expo", "react-native"}

(***************************************************************************)
(* C1: add on a name whose directory <cwd>/<name> exists fails with the    *)
(* already-exists error naming the component and exits 1; it makes no call *)
(* after the existence check and the file system stays as it was.          *)
(***************************************************************************)
C1_AddExistingFails ==
    \A p \in Procs :
        (Runs3(p, "add") /\ IsDir(fs0, TargetOf(p))) =>
            /\ fs = fs0
            /\ proc[p].pc \in {"existsSync", "exited"}
            /\ Exited(p) =>
                 /\ proc[p].calls = <<"existsSync">>
                 /\ proc[p].exitStatus = 1
                 /\ LastMessage(p, "failure",
                        {"Error creating component: Component/page already exists",
                         "Error creating component: Component already exists"})

\* an add of "a" has ended where a/ held a component
C1_Witness ==
    /\ Runs3(1, "add") /\ Exited(1)
    /\ proc[1].componentName = <<"a">>
    /\ fs0 = FsComponent

(***************************************************************************)
(* C2: remove on a name with nothing at <cwd>/<name> fails with the        *)
(* not-found error naming the component and exits 1; no delete is called   *)
(* and the file system stays as it was.                                    *)
(***************************************************************************)
C2_RemoveMissingFails ==
    \A p \in Procs :
        (Runs3(p, "remove") /\ TargetOf(p) \notin DOMAIN fs0) =>
            /\ fs = fs0
            /\ proc[p].pc \in {"existsSync", "exited"}
            /\ Exited(p) =>
                 /\ proc[p].calls = <<"existsSync">>
                 /\ proc[p].exitStatus = 1
                 /\ LastMessage(p, "failure",
                        {"Error removing component: Component/page doesn't exist",
                         "Error removing component: Component doesn't exist"})

\* a remove of "a" has ended where the working directory was empty
C2_Witness ==
    /\ Runs3(1, "remove") /\ Exited(1)
    /\ proc[1].componentName = <<"a">>
    /\ fs0 = FsEmpty

(***************************************************************************)
(* C3: add on a name with nothing at <cwd>/<name>, when no file system     *)
(* call fails, ends with the directory holding exactly the two files of    *)
(* the platform, each with its template and the name interpolated: first   *)
(* letter upper-cased in the identifiers of next, as given elsewhere.      *)
(***************************************************************************)
\* the two file names of a platform
FilesOf(platform) ==
    IF platform = "next" THEN {"page.tsx", "layout.tsx"}
    ELSE IF platform = "expo" THEN {"index.tsx", "styles.js"}
    ELSE {"index.jsx", "styles.js"}

\* the identifier a file of the platform must carry for the name
IdentOf(platform, file, name) ==
    IF file = "styles.js" THEN <<>>
    ELSE IF platform = "next" THEN <<ToUpperCase(name[1])>> \o SubSeq(name, 2, Len(name))
    ELSE name

C3_AddCreatesTwoFiles ==
    \A p \in Procs :
        (/\ Runs3(p, "add") /\ Exited(p)
         /\ TargetOf(p) \notin DOMAIN fs0
         /\ proc[p].threw # "io") =>
            LET d == TargetOf(p)
                name == proc[p].componentName
            IN  /\ proc[p].exitStatus = 0
                /\ IsDir(fs, d)
                /\ Below(fs, d) = {d \o << <<f>> >> : f \in FilesOf(proc[p].platform)}
                /\ \A f \in FilesOf(proc[p].platform) :
                     LET e == fs[d \o << <<f>> >>] IN
                     /\ e.type = "file"
                     /\ e.content.tpl = proc[p].platform \o "/" \o f
                     /\ e.content.ident = IdentOf(proc[p].platform, f, name)
                     /\ f # "styles.js" => e.content.text = name
                /\ \A q \in DOMAIN fs0 : q \in DOMAIN fs /\ fs[q] = fs0[q]

\* a next add of "a/a" has ended well in an empty working directory
C3_Witness ==
    /\ Runs3(1, "add") /\ Exited(1) /\ proc[1].exitStatus = 0
    /\ proc[1].platform = "next"
    /\ proc[1].componentName = <<"a", "/", "a">>
    /\ fs0 = FsEmpty
    /\ fs[Cwd \o <<A, A, <<"page.tsx">> >>].content.ident = <<"A", "/", "a">>

(***************************************************************************)
(* C5: a run with one or two tokens, or whose first token is no platform,  *)
(* or whose second token is no action, makes no file system call, invokes  *)
(* no handler, leaves the file system as it was and exits 1, whatever its  *)
(* other tokens are.                                                       *)
(***************************************************************************)
ArgumentError(argv) ==
    \/ Len(argv) \in 1..2
    \/ Len(argv) >= 1 /\ argv[1] \notin {"next", "expo", "react-native"}
    \/ Len(argv) >= 2 /\ argv[2] \notin {"add", "remove"}

C5_ArgumentErrorsTouchNothing ==
    \A p \in Procs :
        (proc[p].pc # "off" /\ ArgumentError(proc[p].argv)) =>
            /\ fs = fs0
            /\ proc[p].calls = <<>>
            /\ proc[p].handler = ""
            /\ proc[p].pc \in {"parseArguments", "exited"}
            /\ Exited(p) => /\ proc[p].exitStatus = 1
                            /\ Printed(p, "error") /\ Printed(p, "help")
                            /\ ~Printed(p, "success")

\* a run of four tokens with an unknown action has ended where a/ exists
C5_Witness ==
    /\ Exited(1)
    /\ Len(proc[1].argv) = 4
    /\ proc[1].argv[1] = "next" /\ proc[1].argv[2] = "delete"
    /\ proc[1].argv[3] = <<"a">>
    /\ fs0 = FsComponent

(***************************************************************************)
(* C6: a run exits 0 exactly when its handler was invoked and returned     *)
(* without throwing, and 1 otherwise; the success message is printed only  *)
(* by runs that exit 0 and never together with a failure message.          *)
(***************************************************************************)
C6_ExitStatus ==
    \A p \in Procs :
        /\ Exited(p) =>
             /\ proc[p].exitStatus \in {0, 1}
             /\ proc[p].exitStatus = 0 <=> (proc[p].handler # "" /\ proc[p].threw = "")
             /\ ArgumentError(proc[p].argv) => proc[p].exitStatus = 1
             /\ proc[p].threw \in {"exists", "missing", "io"} => proc[p].exitStatus = 1
             /\ proc[p].exitStatus = 1 =>
                  (Printed(p, "error") \/ Printed(p, "failure"))
             /\ proc[p].exitStatus = 0 => Printed(p, "success")
        /\ Printed(p, "success") => (Exited(p) /\ proc[p].exitStatus = 0)
        /\ ~(Printed(p, "success") /\ Printed(p, "failure"))
        /\ proc[p].threw # "" => (Exited(p) /\ Printed(p, "failure"))

\* an interactive add has ended with a file system error after the name
\* prompt asked twice
C6_Witness ==
    /\ Exited(1) /\ proc[1].argv = <<>>
    /\ proc[1].threw = "io" /\ proc[1].exitStatus = 1
    /\ Printed(1, "reprompt")
    /\ proc[1].action = "add"

(***************************************************************************)
(* C7, as claimed: remove on a name whose directory exists deletes it and  *)
(* all in it and exits 0, whatever it holds and whatever the platform.     *)
(***************************************************************************)
C7_RemoveAlwaysDeletes ==
    \A p \in Procs :
        (Runs3(p, "remove") /\ Exited(p) /\ IsDir(fs0, TargetOf(p))) =>
            /\ proc[p].exitStatus = 0
            /\ \A q \in DOMAIN fs0 : q \in DOMAIN fs <=> ~IsPrefix(TargetOf(p), q)

(***************************************************************************)
(* C7, amended: remove on a name whose directory exists, when the delete   *)
(* call does not fail, deletes the directory and all in it, leaves the     *)
(* rest as it was and exits 0, whatever the directory holds and whatever   *)
(* the platform; when the delete call fails the run exits 1.               *)
(***************************************************************************)
C7_RemoveDeletes ==
    \A p \in Procs :
        (Runs3(p, "remove") /\ Exited(p) /\ IsDir(fs0, TargetOf(p))) =>
            /\ proc[p].calls = <<"existsSync", "rmSync">>
            /\ proc[p].threw = "io" => proc[p].exitStatus = 1
            /\ proc[p].threw # "io" =>
                 /\ proc[p].exitStatus = 0
                 /\ DOMAIN fs = {q \in DOMAIN fs0 : ~IsPrefix(TargetOf(p), q)}
                 /\ \A q \in DOMAIN fs : fs[q] = fs0[q]

\* a react-native remove of "a" has deleted a/ with the directory and the
\* file in it that no run of the tool made
C7_Witness ==
    /\ Runs3(1, "remove") /\ Exited(1) /\ proc[1].exitStatus = 0
    /\ proc[1].platform = "react-native"
    /\ proc[1].componentName = <<"a">>
    /\ fs0 = FsNested
    /\ fs = FsEmpty

(***************************************************************************)
(* C10, as claimed: the name a handler gets is never empty, and its target *)
(* is never the working directory itself.                                  *)
(***************************************************************************)
C10_NameNonEmpty ==
    \A p \in Procs :
        proc[p].handler # "" =>
            /\ proc[p].componentName # <<>>
            /\ TargetOf(p) # Cwd

(***************************************************************************)
(* Pairs of runs.                                                          *)
(***************************************************************************)
\* p ran first and q after it had exited, and both have ended
OneThenOther(p, q) ==
    /\ order = <<p, q>> /\ ~overlap
    /\ Exited(p) /\ Exited(q)

SameCommand(p, q) ==
    /\ proc[p].platform = proc[q].platform
    /\ proc[p].componentName = proc[q].componentName

Parent(path) == SubSeq(path, 1, Len(path) - 1)

(***************************************************************************)
(* C4, as claimed: where nothing is at <cwd>/<name>, an add that succeeds  *)
(* followed at once by the remove of the same platform and name leaves the *)
(* file system as it was before the add, and both runs exit 0.             *)
(***************************************************************************)
C4_RoundTripRestores ==
    \A p \in Procs :
        LET q == Other(p) IN
        (/\ OneThenOther(p, q)
         /\ Runs3(p, "add") /\ Runs3(q, "remove") /\ SameCommand(p, q)
         /\ TargetOf(p) \notin DOMAIN fs0
         /\ proc[p].exitStatus = 0) =>
            /\ fs = fs0
            /\ proc[q].exitStatus = 0

(***************************************************************************)
(* C4, amended: where nothing is at <cwd>/<name> and the directory the     *)
(* target lies in exists, an add that succeeds followed at once by the     *)
(* remove of the same platform and name, whose delete call does not fail,  *)
(* leaves the file system as it was before the add, and both runs exit 0.  *)
(***************************************************************************)
C4_RoundTripUnderParent ==
    \A p \in Procs :
        LET q == Other(p) IN
        (/\ OneThenOther(p, q)
         /\ Runs3(p, "add") /\ Runs3(q, "remove") /\ SameCommand(p, q)
         /\ TargetOf(p) \notin DOMAIN fs0
         /\ IsDir(fs0, Parent(TargetOf(p)))
         /\ proc[p].exitStatus = 0
         /\ proc[q].threw # "io") =>
            /\ fs = fs0
            /\ proc[q].exitStatus = 0
            /\ proc[q].calls = <<"existsSync", "rmSync">>

\* an expo add of "a/a" beside the files of the component a/, then its
\* remove, have both ended well
C4_Witness ==
    /\ OneThenOther(1, 2)
    /\ Runs3(1, "add") /\ Runs3(2, "remove") /\ SameCommand(1, 2)
    /\ proc[1].platform = "expo"
    /\ proc[1].componentName = <<"a", "/", "a">>
    /\ fs0 = FsComponent
    /\ proc[1].exitStatus = 0 /\ proc[2].exitStatus = 0

(***************************************************************************)
(* C8: an add handler calls existsSync, mkdirSync, writeFileSync and       *)
(* writeFileSync in this order and rolls nothing back: when the directory  *)
(* was created and a write then fails, the run reports the error and exits *)
(* 1, the directory stays with the files written before (none, or the      *)
(* first alone), and an add of the same name that follows fails with the   *)
(* already-exists error.                                                   *)
(***************************************************************************)
AddCalls == <<"existsSync", "mkdirSync", "writeFileSync", "writeFileSync">>

\* the first file an add handler of the platform writes
FirstFileOf(platform) ==
    IF platform = "next" THEN "page.tsx"
    ELSE IF platform = "expo" THEN "index.tsx"
    ELSE "index.jsx"

\* p ran first, alone so far, and its add ended at a write that threw
WriteFailed(p) ==
    /\ Len(order) >= 1 /\ order[1] = p /\ ~overlap
    /\ Runs3(p, "add") /\ Exited(p)
    /\ proc[p].threw = "io"
    /\ Len(proc[p].calls) >= 3

C8_NoRollback ==
    \A p \in Procs :
        LET q == Other(p)
            d == TargetOf(p)
        IN  /\ (Len(order) >= 1 /\ order[1] = p /\ ~overlap /\ Runs3(p, "add")) =>
                 proc[p].calls = SubSeq(AddCalls, 1, Len(proc[p].calls))
            /\ WriteFailed(p) =>
                 /\ proc[p].exitStatus = 1
                 /\ LastMessage(p, "failure", {"Error creating component: write"})
                 /\ ~Printed(p, "success")
            /\ (WriteFailed(p) /\ ~Started(q)) =>
                 /\ IsDir(fs, d)
                 /\ Below(fs, d) =
                        IF Len(proc[p].calls) = 3 THEN {}
                        ELSE {d \o << <<FirstFileOf(proc[p].platform)>> >>}
                 /\ \A x \in DOMAIN fs0 : x \in DOMAIN fs /\ fs[x] = fs0[x]
            /\ (WriteFailed(p) /\ Exited(q) /\ Runs3(q, "add")
                    /\ proc[q].componentName = proc[p].componentName) =>
                 /\ proc[q].threw = "exists"
                 /\ proc[q].exitStatus = 1
                 /\ proc[q].calls = <<"existsSync">>

\* a next add of "a" ended at its second write, and the expo add of "a"
\* that followed has ended with page.tsx alone in a/
C8_Witness ==
    /\ WriteFailed(1) /\ Len(proc[1].calls) = 4
    /\ proc[1].platform = "next" /\ proc[1].componentName = <<"a">>
    /\ Exited(2) /\ Runs3(2, "add") /\ proc[2].platform = "expo"
    /\ proc[2].componentName = <<"a">>
    /\ proc[2].threw = "exists"
    /\ Below(fs, Cwd \o <<A>>) = {Cwd \o <<A, <<"page.tsx">> >>}

(***************************************************************************)
(* C9: when two adds of the same name both pass the existence check, which *)
(* they do only before either has created the directory, and no call fails *)
(* for a reason of the system's own, then neither gets the already-exists  *)
(* error nor any other, both report success and exit 0, and each file both *)
(* wrote holds what the later of them wrote.                               *)
(***************************************************************************)
\* the add of p went past its existence check
PassedCheck(p) ==
    /\ Runs3(p, "add")
    /\ \/ proc[p].pc \in {"mkdirSync", "writeFirst", "writeSecond"}
       \/ Exited(p) /\ Len(proc[p].calls) >= 2

C9_RacingAddsBothSucceed ==
    \A p \in Procs :
        LET q == Other(p)
            d == TargetOf(p)
        IN  (/\ PassedCheck(p) /\ PassedCheck(q)
             /\ proc[p].componentName = proc[q].componentName
             /\ ~proc[p].fault /\ ~proc[q].fault) =>
                /\ d \notin DOMAIN fs0
                /\ overlap
                /\ proc[p].threw = ""
                /\ (Exited(p) /\ Exited(q)) =>
                     /\ proc[p].exitStatus = 0 /\ Printed(p, "success")
                     /\ ~Printed(p, "failure")
                     /\ Below(fs, d) = {d \o << <<f>> >> :
                            f \in FilesOf(proc[p].platform) \cup FilesOf(proc[q].platform)}
                     /\ \A f \in FilesOf(proc[p].platform) :
                          LET x == d \o << <<f>> >> IN
                          /\ f \in FilesOf(proc[writer[x]].platform)
                          /\ fs[x].content.tpl = proc[writer[x]].platform \o "/" \o f

\* an expo add and a react-native add of "a" have both ended well, and
\* styles.js, which the expo add wrote too, holds the react-native styles
C9_Witness ==
    /\ PassedCheck(1) /\ PassedCheck(2)
    /\ Exited(1) /\ Exited(2)
    /\ proc[1].exitStatus = 0 /\ proc[2].exitStatus = 0
    /\ proc[1].platform = "expo" /\ proc[2].platform = "react-native"
    /\ proc[1].componentName = <<"a">> /\ proc[2].componentName = <<"a">>
    /\ fs[Cwd \o <<A, <<"styles.js">> >>].content = ReactNativeStyles
    /\ writer[Cwd \o <<A, <<"styles.js">> >>] = 2
    /\ Cwd \o <<A, <<"index.tsx">> >> \in DOMAIN fs

====
